---------------------------- MODULE Spec2Model ----------------------------
(***************************************************************************)
(* A model of src/app.py: the marketplace backend's HTTP handlers over a   *)
(* MySQL store.                                                            *)
(*                                                                         *)
(* Every handler opens its own connection (get_db_connection), runs its    *)
(* statements and calls conn.commit().  The connector does not autocommit, *)
(* so the writes of a request are pending until its commit, and the server *)
(* discards them when the connection is closed without one (the finally    *)
(* clause, after a return or an exception).                                *)
(*                                                                         *)
(* A request is a process.  Its frame holds the handler's place (pc), its  *)
(* local variables (cur), the rows its SELECT fetched (rows), its pending  *)
(* writes (tx) and its response (resp), beside the committed rows (db) and *)
(* the AUTO_INCREMENT counters (lastid).  Each statement of a handler is   *)
(* an operator from frame to frame.  The concurrent specifications run the *)
(* requests a statement at a time; the sequential ones run a handler from  *)
(* its first statement to its response in one step.                        *)
(*                                                                         *)
(* The schema is not part of the repository.  The tables carry the columns *)
(* the statements name, an AUTO_INCREMENT id, and no UNIQUE or FOREIGN KEY *)
(* constraint: the handlers check for duplicates and owners themselves.    *)
(* Of a product's columns the model keeps title and price; description,    *)
(* category and image are handled as title is.                             *)
(***************************************************************************)
EXTENDS Integers, Sequences, FiniteSets, TLC

\* ------------------------------------------------------------------ bounds
\* the writes to the cart that add_to_cart requests run, and the rows ever
\* inserted into orders, products and users
MaxAdds == 2
MaxOrders == 2
MaxProducts == 2
MaxUsers == 2
\* the clock stops here
MaxNow == 36

\* -------------------------------------------------------- program constants
JWT_EXPIRE_HOURS == 24
SECRET_KEY == "SECRET_KEY"

\* ------------------------------------------------------------------ inputs
Reqs == {1, 2}
UserIds == {1, 2}
\* product_id of a request body: 0 stands for an absent (falsy) value
ProductIdInputs == {0, 1, 2}
\* quantity of a request body, after int(...)
Quantities == {-1, 2}
Prices == {10, 20}
\* an optional field of a JSON body: <<>> when absent, <<v>> when present
Opt(S) == {<<>>} \cup {<<v>> : v \in S}
Titles == {"", "lamp"}
Usernames == {"", "ann"}
RawEmails == {"", "a@x.io", "A@X.io", " b@x.io "}
Passwords == {"", "pw", "guess"}

VARIABLES db, lastid, now, issued, jwtStrict, pc, cur, rows, tx, resp, added, nadd

vars == <<db, lastid, now, issued, jwtStrict, pc, cur, rows, tx, resp, added, nadd>>

\* ----------------------------------------------------------------- helpers
\* the sum of the quantity column of a set of rows
RECURSIVE SumQuantity(_)
SumQuantity(S) ==
  IF S = {} THEN 0
  ELSE LET x == CHOOSE y \in S : TRUE IN x.quantity + SumQuantity(S \ {x})

\* str.strip() and str.lower(), on the inputs of the model
Strip(s) ==
  CASE s = " b@x.io " -> "b@x.io"
    [] OTHER -> s

Lower(s) ==
  CASE s = "A@X.io" -> "a@x.io"
    [] OTHER -> s

generate_password_hash(password) == <<"hash", password>>
check_password_hash(hash, password) == hash = <<"hash", password>>

\* ------------------------------------------------------------------- tokens
create_token(user_id, t) ==
  [user_id |-> user_id, exp |-> t + JWT_EXPIRE_HOURS, key |-> SECRET_KEY]

\* tokens a client can make up: signed with a key that is not the server's
\* (one long expired, one not expired for as long as the clock runs)
Forged == [user_id : {1}, exp : {0, MaxNow + 2 * JWT_EXPIRE_HOURS}, key : {"other key"}]

NoToken == [user_id |-> 0, exp |-> 0, key |-> ""]
NoHeader == [scheme |-> "", token |-> NoToken]
BasicHeader == [scheme |-> "Basic", token |-> NoToken]
\* the Authorization headers a client can send: none, another scheme, or a
\* Bearer token that the server issued or that the client made up
Headers ==
  {NoHeader, BasicHeader} \cup [scheme : {"Bearer"}, token : issued \cup Forged]
\* the header of a client that logged in
LoggedIn == [scheme : {"Bearer"}, token : issued]

\* a decoder that reads the claims without verifying the signature (the guard
\* C7 describes must not behave like it)
jwt_decode_unverified(token, key, t, strict) ==
  IF token.exp < t \/ (strict /\ token.exp = t) THEN "ExpiredSignatureError"
  ELSE "ok"

\* jwt.decode: the signature first, then the exp claim.  A token is expired
\* once the clock is past exp; at exp itself the release of the library
\* decides (strict: expired).
jwt_decode(token, key, t, strict) ==
  IF token.key # key THEN "InvalidSignatureError"
  ELSE IF token.exp < t \/ (strict /\ token.exp = t) THEN "ExpiredSignatureError"
  ELSE "ok"

\* the wrapper's checks: the status it returns, or 200 and the user it passes on
jwt_required(h) ==
  IF h.scheme # "Bearer"
  THEN [status |-> 401, error |-> "Authorization header missing", user_id |-> 0]
  ELSE LET d == jwt_decode(h.token, SECRET_KEY, now, jwtStrict) IN
       IF d = "ExpiredSignatureError"
       THEN [status |-> 401, error |-> "Token expired", user_id |-> 0]
       ELSE IF d # "ok"
       THEN [status |-> 401, error |-> "Invalid token", user_id |-> 0]
       ELSE [status |-> 200, error |-> "", user_id |-> h.token.user_id]

\* ------------------------------------------------------------------ frames
NoResp == [status |-> 0, error |-> "", id |-> 0, token |-> <<>>, body |-> {}]
\* what a handler keeps in its local variables, besides the request's inputs
\* (auth is the Authorization header it came with)
Req(op, user, h) ==
  [op |-> op, user |-> user, auth |-> h, lastrowid |-> 0, unread |-> FALSE]
NoCur == Req("", 0, NoHeader)

Frame(r) ==
  [db |-> db, lastid |-> lastid, issued |-> issued, added |-> added, nadd |-> nadd,
   pc |-> pc[r], cur |-> cur[r], rows |-> rows[r], tx |-> tx[r], resp |-> resp[r]]

\* request r goes from Frame(r) to f
Do(r, f) ==
  /\ db' = f.db
  /\ lastid' = f.lastid
  /\ issued' = f.issued
  /\ added' = f.added
  /\ nadd' = f.nadd
  /\ pc' = [pc EXCEPT ![r] = f.pc]
  /\ cur' = [cur EXCEPT ![r] = f.cur]
  /\ rows' = [rows EXCEPT ![r] = f.rows]
  /\ tx' = [tx EXCEPT ![r] = f.tx]
  /\ resp' = [resp EXCEPT ![r] = f.resp]
  /\ UNCHANGED <<now, jwtStrict>>

\* ------------------------------------------------------------------- store
\* the rows a pending write locks until its transaction ends
Touches(w) ==
  CASE w.t = "cart_add" -> {<<"cart", w.id>>}
    [] w.t = "cart_delete" -> {<<"cart", i>> : i \in w.ids}
    [] w.t = "product_update" -> {<<"products", w.id>>}
    [] w.t = "product_delete" -> {<<"products", w.id>>}
    [] w.t = "user_update" -> {<<"users", w.id>>}
    [] OTHER -> {}

\* the rows the transactions of the other requests hold locked
LockedByOthers(r) ==
  UNION {UNION {Touches(tx[r2][i]) : i \in 1 .. Len(tx[r2])} : r2 \in Reqs \ {r}}

\* a price update that would reach into the order items of the product (the
\* reference semantics that the snapshot of C5 excludes)
UpdateProductAndItems(w, d) ==
  [d EXCEPT !.products =
       {IF p.id = w.id
        THEN [p EXCEPT !.title = IF w.title = <<>> THEN @ ELSE w.title[1],
                       !.price = IF w.price = <<>> THEN @ ELSE w.price[1]]
        ELSE p : p \in @},
            !.order_items =
       {IF oi.product_id = w.id /\ w.price # <<>>
        THEN [oi EXCEPT !.price = w.price[1]]
        ELSE oi : oi \in @}]

\* UPDATE products SET <the fields present> WHERE id=%s, committed
UpdateProduct(w, d) ==
  [d EXCEPT !.products =
       {IF p.id = w.id
        THEN [p EXCEPT !.title = IF w.title = <<>> THEN @ ELSE w.title[1],
                       !.price = IF w.price = <<>> THEN @ ELSE w.price[1]]
        ELSE p : p \in @}]

\* one pending write applied to the committed rows
Apply(w, d) ==
  CASE w.t = "insert" -> [d EXCEPT ![w.table] = @ \cup {w.row}]
    [] w.t = "cart_add" ->
         [d EXCEPT !.cart = {IF c.id = w.id
                             THEN [c EXCEPT !.quantity = @ + w.quantity]
                             ELSE c : c \in @}]
    [] w.t = "cart_delete" -> [d EXCEPT !.cart = {c \in @ : c.id \notin w.ids}]
    [] w.t = "product_update" -> UpdateProduct(w, d)
    [] w.t = "product_delete" -> [d EXCEPT !.products = {p \in @ : p.id # w.id}]
    [] w.t = "user_update" ->
         [d EXCEPT !.users =
            {IF u.id = w.id
             THEN [u EXCEPT !.username = w.username, !.email = w.email]
             ELSE u : u \in @}]

RECURSIVE ApplyAll(_, _)
ApplyAll(ws, d) ==
  IF ws = <<>> THEN d ELSE ApplyAll(Tail(ws), Apply(Head(ws), d))

\* a connection in autocommit mode, where every statement is committed as it
\* runs and closing the connection undoes nothing (the behaviour C1 excludes)
Autocommit(ws, d) == ApplyAll(ws, d)

\* conn.close() without a commit: the server rolls the transaction back
Rollback(ws, d) == d

\* cur.execute of a write: the statement is pending in the request's transaction
Pend(f, w) == [f EXCEPT !.tx = Append(@, w)]

\* cur.execute of an INSERT: the row takes the table's next AUTO_INCREMENT id,
\* which is not given back when the transaction is rolled back
NextId(f, table) == f.lastid[table] + 1

Insert(f, table, row) ==
  [Pend(f, [t |-> "insert", table |-> table, row |-> row])
     EXCEPT !.lastid[table] = @ + 1, !.cur.lastrowid = NextId(f, table)]

\* the wrapper or the handler returns before a connection is opened
Reply(f, request, status, error) ==
  [f EXCEPT !.pc = "done", !.cur = request, !.rows = <<>>, !.tx = <<>>,
            !.resp = [NoResp EXCEPT !.status = status, !.error = error]]

\* the handler opens its connection and goes on to its first statement
Start(f, request, first) ==
  [f EXCEPT !.pc = first, !.cur = request, !.rows = <<>>, !.tx = <<>>,
            !.resp = NoResp]

\* a return inside the try block, without a commit: finally closes the connection
Return(f, status, error, body) ==
  [f EXCEPT !.pc = "done", !.cur = NoCur, !.rows = <<>>, !.tx = <<>>,
            !.db = Rollback(f.tx, f.db),
            !.resp = [NoResp EXCEPT !.status = status, !.error = error,
                                    !.body = body]]

\* the status of a return that leaves rows of the SELECT unread: the connector
\* may raise in cur.close(), which turns the response into a 500
AfterFetchone(found, status) ==
  IF Cardinality(found) > 1 THEN {status, 500} ELSE {status}

\* ------------------------------------------------------------------- cart
\* POST /cart: the wrapper, then the handler up to its connection
add_to_cart(f, h, product_id, quantity) ==
  LET g == jwt_required(h) IN
  IF g.status # 200 THEN Reply(f, Req("add_to_cart", 0, h), g.status, g.error)
  ELSE IF product_id = 0 THEN Reply(f, Req("add_to_cart", g.user_id, h), 400, "product_id required")
  ELSE Start(f, [product_id |-> product_id, quantity |-> quantity]
                  @@ Req("add_to_cart", g.user_id, h), "cart_select")

\* SELECT id, quantity FROM cart WHERE user_id=%s AND product_id=%s
CartOf(d, u, p) == {c \in d.cart : c.user_id = u /\ c.product_id = p}

\* existing = cur.fetchone(): first is the row the server returns first, <<>>
\* when none matches; with more than one match the rest stays unread
add_to_cart_select(f, first) ==
  [f EXCEPT !.rows = first,
            !.cur.unread = Cardinality(CartOf(f.db, f.cur.user, f.cur.product_id)) > 1,
            !.pc = "cart_write"]

\* if existing: UPDATE cart SET quantity = quantity + %s WHERE id=%s
\* else: INSERT INTO cart (user_id, product_id, quantity) VALUES (%s,%s,%s)
\* On a connection that still holds unread rows the connector raises (raise);
\* one that drains them runs the UPDATE.
\* (nadd counts the writes run, for the bound of the model)
add_to_cart_write(f, raise) ==
  IF raise THEN Return(f, 500, "server error", {})
  ELSE IF f.rows # <<>>
  THEN [Pend(f, [t |-> "cart_add", id |-> f.rows[1].id,
                 quantity |-> f.cur.quantity])
          EXCEPT !.pc = "commit", !.nadd = @ + 1]
  ELSE [Insert(f, "cart", [id |-> NextId(f, "cart"), user_id |-> f.cur.user,
                           product_id |-> f.cur.product_id,
                           quantity |-> f.cur.quantity])
          EXCEPT !.pc = "commit", !.nadd = @ + 1]

\* FROM cart c JOIN products p ON c.product_id = p.id WHERE c.user_id=%s
CartJoinProducts(d, u) ==
  {[cart_id |-> x[1].id, product_id |-> x[2].id, title |-> x[2].title,
    price |-> x[2].price, quantity |-> x[1].quantity] :
     x \in {y \in d.cart \X d.products :
              y[1].user_id = u /\ y[1].product_id = y[2].id}}

\* GET /cart
view_cart(f, h) ==
  LET g == jwt_required(h) IN
  IF g.status # 200 THEN Reply(f, Req("view_cart", 0, h), g.status, g.error)
  ELSE Start(f, Req("view_cart", g.user_id, h), "view_select")

\* the rows of the response: c.id, p.id, p.title, p.price, c.quantity
view_cart_rows(d, u) == CartJoinProducts(d, u)

view_cart_select(f) == Return(f, 200, "", view_cart_rows(f.db, f.cur.user))

\* --------------------------------------------------------------- checkout
\* a fetch that returns the first row of the join only (fetchone in the place
\* of fetchall), which loses the rest of the cart
FetchFirst(S) ==
  IF S = {} THEN <<>>
  ELSE LET x == CHOOSE y \in S : \A z \in S : y.cart_id <= z.cart_id IN
       <<[product_id |-> x.product_id, quantity |-> x.quantity, price |-> x.price]>>

\* the rows of the join as the list fetchall() returns, in cart id order
RECURSIVE FetchAll(_)
FetchAll(S) ==
  IF S = {} THEN <<>>
  ELSE LET x == CHOOSE y \in S : \A z \in S : y.cart_id <= z.cart_id IN
       <<[product_id |-> x.product_id, quantity |-> x.quantity, price |-> x.price]>>
         \o FetchAll(S \ {x})

\* POST /checkout
checkout(f, h) ==
  LET g == jwt_required(h) IN
  IF g.status # 200 THEN Reply(f, Req("checkout", 0, h), g.status, g.error)
  ELSE Start(f, [order_id |-> 0, i |-> 1] @@ Req("checkout", g.user_id, h),
             "checkout_select")

\* SELECT c.product_id, c.quantity, p.price FROM cart c JOIN products p ...
\* if not items: return 400
checkout_select(f) ==
  LET items == FetchAll(CartJoinProducts(f.db, f.cur.user)) IN
  IF items = <<>> THEN Return(f, 400, "cart empty", {})
  ELSE [f EXCEPT !.rows = items, !.pc = "checkout_order"]

\* INSERT INTO orders (user_id, created_at) VALUES (%s, %s); order_id = lastrowid
checkout_order(f) ==
  [Insert(f, "orders", [id |-> NextId(f, "orders"), user_id |-> f.cur.user,
                        created_at |-> now])
     EXCEPT !.cur.order_id = NextId(f, "orders"), !.pc = "checkout_items"]

\* for it in items: INSERT INTO order_items (order_id, product_id, quantity, price)
\* and after the last one: DELETE FROM cart WHERE user_id=%s, which deletes
\* the rows committed when it runs
checkout_items(f) ==
  IF f.cur.i <= Len(f.rows)
  THEN LET it == f.rows[f.cur.i] IN
       [Insert(f, "order_items",
               [id |-> NextId(f, "order_items"), order_id |-> f.cur.order_id,
                product_id |-> it.product_id, quantity |-> it.quantity,
                price |-> it.price])
          EXCEPT !.cur.i = @ + 1]
  ELSE [Pend(f, [t |-> "cart_delete",
                 ids |-> {c.id : c \in {x \in f.db.cart : x.user_id = f.cur.user}}])
          EXCEPT !.pc = "commit"]

\* --------------------------------------------------------------- products
\* POST /products
create_product(f, h, title, price) ==
  LET g == jwt_required(h) IN
  IF g.status # 200 THEN Reply(f, Req("create_product", 0, h), g.status, g.error)
  ELSE IF Strip(title) = "" \/ price = <<>>
  THEN Reply(f, Req("create_product", g.user_id, h), 400, "title and price required")
  ELSE Start(f, [title |-> Strip(title), price |-> price[1]]
                  @@ Req("create_product", g.user_id, h), "product_insert")

\* INSERT INTO products (user_id, title, ..., price, ...): the owner is the
\* user of the token
create_product_insert(f) ==
  [Insert(f, "products", [id |-> NextId(f, "products"), user_id |-> f.cur.user,
                          title |-> f.cur.title, price |-> f.cur.price])
     EXCEPT !.pc = "commit"]

\* GET /products: the rows of the response, no filter given
list_products_rows(d) == d.products

\* SELECT user_id FROM products WHERE id=%s
OwnerOf(d, pid) == {p.user_id : p \in {x \in d.products : x.id = pid}}

\* PUT /products/<pid>
update_product(f, h, pid, title, price) ==
  LET g == jwt_required(h) IN
  IF g.status # 200 THEN Reply(f, Req("update_product", 0, h), g.status, g.error)
  ELSE Start(f, [pid |-> pid, title |-> title, price |-> price]
                  @@ Req("update_product", g.user_id, h), "update_select")

\* an update that skips the comparison with the stored owner (what C4 excludes)
update_product_unchecked(f) ==
  LET owner == OwnerOf(f.db, f.cur.pid) IN
  IF owner = {} THEN Return(f, 404, "not found", {})
  ELSE IF f.cur.title = <<>> /\ f.cur.price = <<>>
  THEN Return(f, 400, "nothing to update", {})
  ELSE [f EXCEPT !.pc = "update_write"]

\* the owner check, then the list of the fields to set
update_product_select(f) ==
  LET owner == OwnerOf(f.db, f.cur.pid) IN
  IF owner = {} THEN Return(f, 404, "not found", {})
  ELSE IF owner # {f.cur.user} THEN Return(f, 403, "forbidden", {})
  ELSE IF f.cur.title = <<>> /\ f.cur.price = <<>>
  THEN Return(f, 400, "nothing to update", {})
  ELSE [f EXCEPT !.pc = "update_write"]

\* UPDATE products SET <the fields present> WHERE id=%s
update_product_write(f) ==
  [Pend(f, [t |-> "product_update", id |-> f.cur.pid, title |-> f.cur.title,
            price |-> f.cur.price])
     EXCEPT !.pc = "commit"]

\* DELETE /products/<pid>
delete_product(f, h, pid) ==
  LET g == jwt_required(h) IN
  IF g.status # 200 THEN Reply(f, Req("delete_product", 0, h), g.status, g.error)
  ELSE Start(f, [pid |-> pid] @@ Req("delete_product", g.user_id, h), "delete_select")

delete_product_select(f) ==
  LET owner == OwnerOf(f.db, f.cur.pid) IN
  IF owner = {} THEN Return(f, 404, "not found", {})
  ELSE IF owner # {f.cur.user} THEN Return(f, 403, "forbidden", {})
  ELSE [f EXCEPT !.pc = "delete_write"]

\* DELETE FROM products WHERE id=%s: cart rows and order items stay
delete_product_write(f) ==
  [Pend(f, [t |-> "product_delete", id |-> f.cur.pid]) EXCEPT !.pc = "commit"]

\* -------------------------------------------------------------- purchases
\* FROM orders o JOIN order_items oi ON oi.order_id = o.id
\*   JOIN products p ON p.id = oi.product_id WHERE o.user_id=%s
\* (the rows as a set: their order, newest first, is not modelled)
purchases_rows(d, u) ==
  {[order_id |-> x[1].id, created_at |-> x[1].created_at,
    product_id |-> x[2].product_id, title |-> x[3].title,
    quantity |-> x[2].quantity, price |-> x[2].price] :
     x \in {y \in d.orders \X d.order_items \X d.products :
              /\ y[1].user_id = u
              /\ y[2].order_id = y[1].id
              /\ y[3].id = y[2].product_id}}

\* GET /purchases
purchases(f, h) ==
  LET g == jwt_required(h) IN
  IF g.status # 200 THEN Reply(f, Req("purchases", 0, h), g.status, g.error)
  ELSE Start(f, Req("purchases", g.user_id, h), "purchases_select")

purchases_select(f) == Return(f, 200, "", purchases_rows(f.db, f.cur.user))

\* ------------------------------------------------------------------ users
\* SELECT ... FROM users WHERE email=%s
UsersByEmail(d, email) == {u \in d.users : u.email = email}

\* POST /signup
signup(f, username, email, password) ==
  IF Strip(username) = "" \/ Lower(Strip(email)) = "" \/ password = ""
  THEN Reply(f, NoCur, 400, "username, email and password required")
  ELSE Start(f, [username |-> Strip(username), email |-> Lower(Strip(email)),
                 password |-> password] @@ Req("signup", 0, NoHeader), "signup_select")

\* SELECT id FROM users WHERE email=%s; if cur.fetchone(): return 400
signup_select(f, status) ==
  IF UsersByEmail(f.db, f.cur.email) # {}
  THEN Return(f, status, "email already registered", {})
  ELSE [f EXCEPT !.pc = "signup_insert"]

\* INSERT INTO users (username, email, password) VALUES (%s,%s,%s)
signup_insert(f) ==
  [Insert(f, "users", [id |-> NextId(f, "users"), username |-> f.cur.username,
                       email |-> f.cur.email,
                       password |-> generate_password_hash(f.cur.password)])
     EXCEPT !.pc = "commit"]

\* POST /login
login(f, email, password) ==
  IF Lower(Strip(email)) = "" \/ password = ""
  THEN Reply(f, NoCur, 400, "email and password required")
  ELSE Start(f, [email |-> Lower(Strip(email)), password |-> password]
                  @@ Req("login", 0, NoHeader), "login_select")

\* SELECT id, username, email, password FROM users WHERE email=%s; user is the
\* row fetchone() returns, <<>> when none matches
login_select(f, user, status) ==
  IF user = <<>> THEN Return(f, 401, "invalid credentials", {})
  ELSE IF ~check_password_hash(user[1].password, f.cur.password)
  THEN Return(f, IF status = 200 THEN 401 ELSE status, "invalid credentials", {})
  ELSE [Return(f, status, "", {})
          EXCEPT !.resp.id = user[1].id,
                 !.resp.token = IF status = 200
                                THEN <<create_token(user[1].id, now)>> ELSE <<>>,
                 !.issued = @ \cup {create_token(user[1].id, now)}]

\* GET /profile
profile(f, h) ==
  LET g == jwt_required(h) IN
  IF g.status # 200 THEN Reply(f, Req("profile", 0, h), g.status, g.error)
  ELSE Start(f, Req("profile", g.user_id, h), "profile_select")

\* SELECT id, username, email FROM users WHERE id=%s
profile_select(f) ==
  LET found == {u \in f.db.users : u.id = f.cur.user} IN
  IF found = {} THEN Return(f, 404, "not found", {})
  ELSE Return(f, 200, "", {[id |-> u.id, username |-> u.username,
                            email |-> u.email] : u \in found})

\* PUT /profile
update_profile(f, h, username, email) ==
  LET g == jwt_required(h) IN
  IF g.status # 200 THEN Reply(f, Req("update_profile", 0, h), g.status, g.error)
  ELSE IF Strip(username) = "" \/ Lower(Strip(email)) = ""
  THEN Reply(f, Req("update_profile", g.user_id, h), 400,
             "username and email required")
  ELSE Start(f, [username |-> Strip(username), email |-> Lower(Strip(email))]
                  @@ Req("update_profile", g.user_id, h), "profile_conflict")

\* SELECT id FROM users WHERE email=%s AND id!=%s
EmailConflicts(d, email, user) == {u \in UsersByEmail(d, email) : u.id # user}

\* if cur.fetchone(): return 400
update_profile_select(f, status) ==
  IF EmailConflicts(f.db, f.cur.email, f.cur.user) # {}
  THEN Return(f, status, "email already in use", {})
  ELSE [f EXCEPT !.pc = "profile_write"]

\* UPDATE users SET username=%s, email=%s WHERE id=%s
update_profile_write(f) ==
  [Pend(f, [t |-> "user_update", id |-> f.cur.user, username |-> f.cur.username,
            email |-> f.cur.email])
     EXCEPT !.pc = "commit"]

\* ----------------------------------------------------- commit and failure
\* the response after conn.commit()
Committed(f) ==
  CASE f.cur.op = "checkout" ->
         [NoResp EXCEPT !.status = 200, !.id = f.cur.order_id]
    [] f.cur.op = "create_product" ->
         [NoResp EXCEPT !.status = 201, !.id = f.cur.lastrowid]
    [] f.cur.op = "signup" ->
         [NoResp EXCEPT !.status = 201, !.id = f.cur.lastrowid,
                        !.token = <<create_token(f.cur.lastrowid, now)>>]
    [] OTHER -> [NoResp EXCEPT !.status = 200]

\* conn.commit(): the pending writes become committed rows, all at once; then
\* the handler returns (signup mints the new user's token first).  added counts
\* the quantities of the add_to_cart requests that succeeded.
commit(f) ==
  [f EXCEPT !.db = ApplyAll(f.tx, f.db),
            !.pc = "done", !.cur = NoCur, !.rows = <<>>, !.tx = <<>>,
            !.resp = Committed(f),
            !.issued = IF f.cur.op = "signup"
                       THEN @ \cup {create_token(f.cur.lastrowid, now)} ELSE @,
            !.added = IF f.cur.op = "add_to_cart"
                      THEN [@ EXCEPT ![<<f.cur.user, f.cur.product_id>>] =
                              @ + f.cur.quantity]
                      ELSE @]

\* a statement or the commit raises (the store fails, the connection drops):
\* except Exception returns 500, finally closes the connection
fail(f) == Return(f, 500, "server error", {})

\* ------------------------------------------------------- running a handler
\* what the store is free to choose at a statement
Choices(f) ==
  CASE f.pc = "cart_select" ->
         LET found == CartOf(f.db, f.cur.user, f.cur.product_id) IN
         IF found = {} THEN {<<>>} ELSE {<<c>> : c \in found}
    [] f.pc = "cart_write" -> IF f.cur.unread THEN {FALSE, TRUE} ELSE {FALSE}
    [] f.pc = "signup_select" -> AfterFetchone(UsersByEmail(f.db, f.cur.email), 400)
    [] f.pc = "profile_conflict" ->
         AfterFetchone(EmailConflicts(f.db, f.cur.email, f.cur.user), 400)
    [] f.pc = "login_select" ->
         LET found == UsersByEmail(f.db, f.cur.email) IN
         IF found = {} THEN {<< <<>>, 401 >>}
         ELSE {<< <<u>>, s >> : u \in found, s \in AfterFetchone(found, 200)}
    [] OTHER -> {0}

\* the statement at f.pc
Step(f, c) ==
  CASE f.pc = "cart_select" -> add_to_cart_select(f, c)
    [] f.pc = "cart_write" -> add_to_cart_write(f, c)
    [] f.pc = "view_select" -> view_cart_select(f)
    [] f.pc = "checkout_select" -> checkout_select(f)
    [] f.pc = "checkout_order" -> checkout_order(f)
    [] f.pc = "checkout_items" -> checkout_items(f)
    [] f.pc = "product_insert" -> create_product_insert(f)
    [] f.pc = "update_select" -> update_product_select(f)
    [] f.pc = "update_write" -> update_product_write(f)
    [] f.pc = "delete_select" -> delete_product_select(f)
    [] f.pc = "delete_write" -> delete_product_write(f)
    [] f.pc = "purchases_select" -> purchases_select(f)
    [] f.pc = "signup_select" -> signup_select(f, c)
    [] f.pc = "signup_insert" -> signup_insert(f)
    [] f.pc = "login_select" -> login_select(f, c[1], c[2])
    [] f.pc = "profile_select" -> profile_select(f)
    [] f.pc = "profile_conflict" -> update_profile_select(f, c)
    [] f.pc = "profile_write" -> update_profile_write(f)
    [] f.pc = "commit" -> commit(f)

\* whether the statement at f.pc can run now: it waits for the rows that other
\* transactions hold locked, and the model stops at its bounds
Ready(f, c, locked) ==
  CASE f.pc = "cart_write" ->
         \/ c
         \/ /\ f.nadd < MaxAdds
            /\ f.rows # <<>> => <<"cart", f.rows[1].id>> \notin locked
    [] f.pc = "checkout_order" -> f.lastid.orders < MaxOrders
    [] f.pc = "checkout_items" ->
         \/ f.cur.i <= Len(f.rows)
         \/ \A x \in f.db.cart : x.user_id = f.cur.user => <<"cart", x.id>> \notin locked
    [] f.pc = "product_insert" -> f.lastid.products < MaxProducts
    [] f.pc = "update_write" -> <<"products", f.cur.pid>> \notin locked
    [] f.pc = "delete_write" -> <<"products", f.cur.pid>> \notin locked
    [] f.pc = "signup_insert" -> f.lastid.users < MaxUsers
    [] f.pc = "profile_write" -> <<"users", f.cur.user>> \notin locked
    [] OTHER -> TRUE

\* a handler run alone from its first statement to its response
RECURSIVE Run(_)
Run(f) ==
  IF f.pc = "done" THEN f
  ELSE LET c == CHOOSE x \in Choices(f) : TRUE IN
       IF Cardinality(Choices(f)) = 1 /\ Ready(f, c, {})
       THEN Run(Step(f, c))
       ELSE [f EXCEPT !.pc = "blocked"]

Free(r) == pc[r] \in {"idle", "done"}

\* a request arrives and is handled to its response, no other request running
Handle(r, f) ==
  /\ Free(r)
  /\ LET g == Run(f) IN
       /\ g.pc = "done"
       /\ Do(r, g)

\* a request arrives: the wrapper and the handler up to its first statement
Request(r, f) ==
  /\ Free(r)
  /\ Do(r, f)

\* request r runs the statement at place p
Statement(r, p) ==
  /\ pc[r] = p
  /\ \E c \in Choices(Frame(r)) :
       /\ Ready(Frame(r), c, LockedByOthers(r))
       /\ Do(r, Step(Frame(r), c))

\* the places of a handler inside its try block
InTry == {"cart_select", "cart_write", "view_select", "checkout_select",
          "checkout_order", "checkout_items", "product_insert", "update_select",
          "update_write", "delete_select", "delete_write", "purchases_select",
          "signup_select", "signup_insert", "login_select", "profile_select",
          "profile_conflict", "profile_write", "commit"}

\* the statement request r is at raises
Fail(r) ==
  /\ pc[r] \in InTry
  /\ Do(r, fail(Frame(r)))

\* the clock: half a token lifetime passes
Tick ==
  /\ now < MaxNow
  /\ now' = now + (JWT_EXPIRE_HOURS \div 2)
  /\ UNCHANGED <<db, lastid, issued, jwtStrict, pc, cur, rows, tx, resp, added, nadd>>

\* ---------------------------------------------------------- specifications
TwoUsers ==
  {[id |-> 1, username |-> "ann", email |-> "a@x.io",
    password |-> generate_password_hash("pw")],
   [id |-> 2, username |-> "bob", email |-> "b@x.io",
    password |-> generate_password_hash("pw")]}

TwoProducts ==
  {[id |-> 1, user_id |-> 1, title |-> "lamp", price |-> 10],
   [id |-> 2, user_id |-> 2, title |-> "lamp", price |-> 20]}

InitRequests ==
  /\ pc = [r \in Reqs |-> "idle"]
  /\ cur = [r \in Reqs |-> NoCur]
  /\ rows = [r \in Reqs |-> <<>>]
  /\ tx = [r \in Reqs |-> <<>>]
  /\ resp = [r \in Reqs |-> NoResp]
  /\ added = [k \in UserIds \X (ProductIdInputs \ {0}) |-> 0]
  /\ nadd = 0

\* Spec: the shop, one request at a time.  Two users are registered and logged
\* in and each sells one product; there is no cart row or order yet.
Init ==
  /\ db = [users |-> TwoUsers, products |-> TwoProducts, cart |-> {},
           orders |-> {}, order_items |-> {}]
  /\ lastid = [users |-> 2, products |-> 2, cart |-> 0, orders |-> 0,
               order_items |-> 0]
  /\ now = 0
  /\ issued = {create_token(u, 0) : u \in UserIds}
  /\ jwtStrict = TRUE
  /\ InitRequests

\* the user who shops
Buyer == {h \in LoggedIn : h.token.user_id = 2}

Next ==
  \/ \E h \in LoggedIn, i \in {1, 2}, p \in Opt(Prices) :
       Handle(1, update_product(Frame(1), h, i, <<>>, p))
  \/ \E h \in LoggedIn, i \in {1, 2} : Handle(1, delete_product(Frame(1), h, i))
  \/ \E h \in Buyer, p \in ProductIdInputs, q \in Quantities :
       Handle(1, add_to_cart(Frame(1), h, p, q))
  \/ \E h \in Buyer : Handle(1, view_cart(Frame(1), h))
  \/ \E h \in Buyer : Handle(1, checkout(Frame(1), h))
  \/ \E h \in Buyer : Handle(1, purchases(Frame(1), h))

Spec == Init /\ [][Next]_vars

\* SpecFail: the buyer's requests on one connection, a statement at a time; any
\* statement, and the commit, may raise
NextFail ==
  \/ \E h \in Buyer, p \in ProductIdInputs, q \in Quantities :
       Request(1, add_to_cart(Frame(1), h, p, q))
  \/ \E h \in Buyer : Request(1, checkout(Frame(1), h))
  \/ Statement(1, "cart_select")
  \/ Statement(1, "cart_write")
  \/ Statement(1, "checkout_select")
  \/ Statement(1, "checkout_order")
  \/ Statement(1, "checkout_items")
  \/ Statement(1, "commit")
  \/ Fail(1)

SpecFail == Init /\ [][NextFail]_vars

\* SpecConc: the buyer's add_to_cart and checkout requests on two connections,
\* a statement at a time
NextConc ==
  \E r \in Reqs :
    \/ \E h \in Buyer, p \in {1, 2}, q \in Quantities :
         Request(r, add_to_cart(Frame(r), h, p, q))
    \/ \E h \in Buyer : Request(r, checkout(Frame(r), h))
    \/ Statement(r, "cart_select")
    \/ Statement(r, "cart_write")
    \/ Statement(r, "checkout_select")
    \/ Statement(r, "checkout_order")
    \/ Statement(r, "checkout_items")
    \/ Statement(r, "commit")

SpecConc == Init /\ [][NextConc]_vars

\* SpecProducts: both users create, update and delete products, on one
\* connection, a statement at a time; the table starts empty
InitProducts ==
  /\ db = [users |-> TwoUsers, products |-> {}, cart |-> {}, orders |-> {},
           order_items |-> {}]
  /\ lastid = [users |-> 2, products |-> 0, cart |-> 0, orders |-> 0,
               order_items |-> 0]
  /\ now = 0
  /\ issued = {create_token(u, 0) : u \in UserIds}
  /\ jwtStrict = TRUE
  /\ InitRequests

NextProducts ==
  \/ \E h \in LoggedIn, t \in Titles, p \in Opt(Prices) :
       Request(1, create_product(Frame(1), h, t, p))
  \/ \E h \in LoggedIn, i \in 1 .. MaxProducts, t \in Opt({"desk"}), p \in Opt(Prices) :
       Request(1, update_product(Frame(1), h, i, t, p))
  \/ \E h \in LoggedIn, i \in 1 .. MaxProducts :
       Request(1, delete_product(Frame(1), h, i))
  \/ Statement(1, "product_insert")
  \/ Statement(1, "update_select")
  \/ Statement(1, "update_write")
  \/ Statement(1, "delete_select")
  \/ Statement(1, "delete_write")
  \/ Statement(1, "commit")
  \/ Fail(1)

SpecProducts == InitProducts /\ [][NextProducts]_vars

\* SpecUsers: signup and profile updates on two connections; nobody is
\* registered yet
InitUsers ==
  /\ db = [users |-> {}, products |-> {}, cart |-> {}, orders |-> {},
           order_items |-> {}]
  /\ lastid = [users |-> 0, products |-> 0, cart |-> 0, orders |-> 0,
               order_items |-> 0]
  /\ now = 0
  /\ issued = {}
  /\ jwtStrict = TRUE
  /\ InitRequests

NextUsers ==
  \E r \in Reqs :
    \/ \E n \in Usernames, e \in RawEmails, p \in Passwords :
         Request(r, signup(Frame(r), n, e, p))
    \/ \E h \in LoggedIn, n \in Usernames, e \in RawEmails :
         Request(r, update_profile(Frame(r), h, n, e))
    \/ Statement(r, "signup_select")
    \/ Statement(r, "signup_insert")
    \/ Statement(r, "profile_conflict")
    \/ Statement(r, "profile_write")
    \/ Statement(r, "commit")

SpecUsers == InitUsers /\ [][NextUsers]_vars

\* SpecAuth: user 2 has logged in at time 0, user 1 logs in at any time, time
\* passes, and requests come with any header a client can send; one request
\* at a time
InitAuth ==
  /\ db = [users |-> TwoUsers, products |-> TwoProducts, cart |-> {},
           orders |-> {}, order_items |-> {}]
  /\ lastid = [users |-> 2, products |-> 2, cart |-> 0, orders |-> 0,
               order_items |-> 0]
  /\ now = 0
  /\ issued = {create_token(2, 0)}
  /\ jwtStrict \in BOOLEAN
  /\ InitRequests

NextAuth ==
  \/ \E e \in {"", "a@x.io", "A@X.io"}, p \in Passwords :
       Handle(1, login(Frame(1), e, p))
  \/ \E h \in Headers : Handle(1, profile(Frame(1), h))
  \/ \E h \in Headers, p \in {0, 1} : Handle(1, add_to_cart(Frame(1), h, p, 2))
  \/ Tick

SpecAuth == InitAuth /\ [][NextAuth]_vars


\* ------------------------------------------------------------- properties
\* what a step adds to the committed orders and order items
NewOrders == db'.orders \ db.orders
NewItems == db'.order_items \ db.order_items

\* the cart rows of user u, with and without a product behind them
CartRows(d, u) == {c \in d.cart : c.user_id = u}

CartIds(d) == {c.id : c \in d.cart}

\* the order items of the orders of user u
ItemsOf(d, u) ==
  {oi \in d.order_items : \E o \in d.orders : o.id = oi.order_id /\ o.user_id = u}

\* A and B correspond one to one under Match
OneToOne(A, B, Match(_, _)) ==
  \E m \in [A -> B] :
    /\ \A a, b \in A : m[a] = m[b] => a = b
    /\ \A y \in B : \E a \in A : m[a] = y
    /\ \A a \in A : Match(a, m[a])

\* an order item that copies a row of the cart joined with its product
MatchesJoined(c, oi) ==
  /\ oi.product_id = c.product_id
  /\ oi.quantity = c.quantity
  /\ oi.price = c.price

\* an order item that copies a cart row and the price of its product now
MatchesEntry(c, oi) ==
  /\ oi.product_id = c.product_id
  /\ oi.quantity = c.quantity
  /\ \E p \in db.products : p.id = c.product_id /\ oi.price = p.price

\* the step commits exactly one order, of user u, holding every new item;
\* u's cart is empty after it, view_cart shows nothing and purchases shows
\* the order
OrderOfCheckout(u) ==
  /\ \E o \in NewOrders :
       /\ NewOrders = {o}
       /\ o.user_id = u
       /\ resp'[1].id = o.id
       /\ \A oi \in NewItems : oi.order_id = o.id
       /\ \E row \in purchases_rows(db', u) : row.order_id = o.id
  /\ CartRows(db', u) = {}
  /\ view_cart_rows(db', u) = {}

\* C1: a checkout that fails after the cart read (at the INSERT of the order,
\* at an INSERT of an item, at the DELETE or at the commit) answers 500 and
\* leaves the committed rows as they were; no statement of a checkout changes
\* the committed rows before its commit; and the only step that adds an order
\* or an order item, or removes a cart row, is the commit of a checkout that
\* answers 200, which adds one order with its items and removes every cart
\* row of the user.
C1_CheckoutAllOrNothing ==
  [][/\ (/\ cur[1].op = "checkout"
         /\ pc[1] \in {"checkout_order", "checkout_items", "commit"}
         /\ pc'[1] = "done"
         /\ resp'[1].status # 200)
          => (resp'[1].status = 500 /\ db' = db)
     /\ (cur[1].op = "checkout" /\ pc'[1] # "done") => db' = db
     /\ (NewOrders # {} \/ NewItems # {} \/ ~(CartIds(db) \subseteq CartIds(db')))
          => /\ cur[1].op = "checkout"
             /\ pc[1] = "commit"
             /\ resp'[1].status = 200
             /\ OrderOfCheckout(cur[1].user)
             /\ NewItems # {}]_vars

\* a checkout failed after it had inserted its order, and the cart is still there
C1_Witness ==
  /\ pc[1] = "done"
  /\ resp[1].status = 500
  /\ lastid.orders > Cardinality(db.orders)
  /\ CartRows(db, 2) # {}

\* C2 (as amended): a successful checkout by u, from a state where u's cart
\* holds a row whose product exists, commits exactly one order of u whose
\* items correspond one to one to the cart rows of u whose product exists
\* (the rows view_cart shows: same product id, same quantity, the product's
\* price at that time), removes every cart row of u, the rows of deleted
\* products too, so that view_cart is empty and purchases shows the order.
C2_CheckoutOfJoinedCart ==
  [][\A h \in Buyer :
       (/\ resp'[1].status = 200
        /\ Handle(1, checkout(Frame(1), h)))
         => /\ CartJoinProducts(db, h.token.user_id) # {}
            /\ OrderOfCheckout(h.token.user_id)
            /\ OneToOne(CartJoinProducts(db, h.token.user_id), NewItems,
                        MatchesJoined)]_vars

\* a checkout has just committed an order of two items
C2_Witness ==
  /\ resp[1].status = 200
  /\ \E o \in db.orders :
       /\ resp[1].id = o.id
       /\ Cardinality({oi \in db.order_items : oi.order_id = o.id}) = 2
  /\ CartRows(db, 2) = {}

\* C2 as the specification states it: the items of the order correspond one
\* to one to all the cart entries of u before the checkout.
C2_CheckoutOfWholeCart ==
  [][\A h \in Buyer :
       (/\ resp'[1].status = 200
        /\ CartRows(db, h.token.user_id) # {}
        /\ Handle(1, checkout(Frame(1), h)))
         => /\ OrderOfCheckout(h.token.user_id)
            /\ OneToOne(CartRows(db, h.token.user_id), NewItems, MatchesEntry)]_vars

\* C3: there is never more than one cart row for a user and a product.
C3_OneRowPerUserAndProduct ==
  \A u \in UserIds, p \in ProductIdInputs : Cardinality(CartOf(db, u, p)) <= 1

\* C4: update_product and delete_product answer 404 for a product that is
\* not there and 403, changing nothing, for one that another user owns; the
\* owner's request passes the check and its commit changes or removes that
\* product; a product row is changed or removed only by the commit of an
\* update or a delete of that product by its owner; and the owner of a product
\* never changes.
C4_OnlyTheOwner ==
  [][/\ (pc[1] \in {"update_select", "delete_select"} /\ resp'[1].status # 500)
          => LET owner == OwnerOf(db, cur[1].pid) IN
             /\ owner = {} => (resp'[1].status = 404 /\ pc'[1] = "done")
             /\ (owner # {} /\ owner # {cur[1].user})
                  => (resp'[1].status = 403 /\ pc'[1] = "done")
             /\ owner = {cur[1].user}
                  => \/ pc'[1] \in {"update_write", "delete_write"}
                     \/ /\ resp'[1].status = 400
                        /\ cur[1].op = "update_product"
                        /\ cur[1].title = <<>> /\ cur[1].price = <<>>
             /\ db' = db
     /\ (pc[1] = "commit" /\ cur[1].op = "update_product" /\ resp'[1].status = 200)
          => \E p \in db'.products :
               /\ p.id = cur[1].pid
               /\ p.user_id = cur[1].user
               /\ cur[1].title # <<>> => p.title = cur[1].title[1]
               /\ cur[1].price # <<>> => p.price = cur[1].price[1]
     /\ (pc[1] = "commit" /\ cur[1].op = "delete_product" /\ resp'[1].status = 200)
          => \A p \in db'.products : p.id # cur[1].pid
     /\ \A p \in db.products :
          p \notin db'.products
            => /\ pc[1] = "commit"
               /\ resp'[1].status = 200
               /\ cur[1].op \in {"update_product", "delete_product"}
               /\ cur[1].pid = p.id
               /\ cur[1].user = p.user_id
     /\ \A p \in db.products, q \in db'.products :
          p.id = q.id => p.user_id = q.user_id]_vars

\* a request was refused with 403 and a product carries its owner's update
C4_Witness ==
  /\ pc[1] = "done"
  /\ resp[1].status = 403
  /\ \E p \in db.products : p.title = "desk"

\* C5: no step changes or removes an order item; an update of a product's
\* price leaves the order items alone while list_products and view_cart show
\* the new price; and view_cart answers with the current price of each row's
\* product.
C5_SnapshotPrice ==
  [][/\ \A oi \in db.order_items : oi \in db'.order_items
     /\ \A h \in LoggedIn, i \in {1, 2}, v \in Prices :
          (/\ resp'[1].status = 200
           /\ resp'[1].body = {}
           /\ db'.cart = db.cart
           /\ Handle(1, update_product(Frame(1), h, i, <<>>, <<v>>)))
            => /\ db'.order_items = db.order_items
               /\ \E p \in list_products_rows(db') : p.id = i /\ p.price = v
               /\ \A row \in view_cart_rows(db', 2) :
                    row.product_id = i => row.price = v
     /\ \A h \in Buyer :
          (resp'[1].body # {} /\ Handle(1, view_cart(Frame(1), h)))
            => \A row \in resp'[1].body :
                 \E p \in db.products : p.id = row.product_id /\ p.price = row.price]_vars

\* an order item keeps a price that its product no longer has
C5_Witness ==
  \E oi \in db.order_items, p \in db.products :
    p.id = oi.product_id /\ p.price # oi.price

\* C6: no two users hold the same email, letter case aside.
C6_EmailsAreUnique ==
  \A u1, u2 \in db.users : Lower(u1.email) = Lower(u2.email) => u1.id = u2.id

\* what the guard must do with header h on a request that answers as resp'[1]:
\* refuse with 401 and the error of the case, the committed rows and the
\* counters untouched, or let the handler run as the user of the token
Refused(error) ==
  /\ resp'[1].status = 401
  /\ resp'[1].error = error
  /\ db' = db
  /\ lastid' = lastid

Guarded(h, RunsAs(_)) ==
  IF h.scheme # "Bearer" THEN Refused("Authorization header missing")
  ELSE IF h.token.key # SECRET_KEY THEN Refused("Invalid token")
  ELSE IF h.token.exp < now THEN Refused("Token expired")
  ELSE IF now < h.token.exp THEN RunsAs(h.token.user_id)
  ELSE Refused("Token expired") \/ RunsAs(h.token.user_id)

\* GET /profile ran as user u
ProfileOf(u) ==
  /\ resp'[1].status = 200
  /\ \E x \in db.users : x.id = u /\ resp'[1].body = {[id |-> x.id, username |-> x.username,
                                                        email |-> x.email]}

\* POST /cart for product 1 and quantity 2 ran as user u
AddedBy(u) ==
  /\ resp'[1].status = 200
  /\ SumQuantity(CartOf(db', u, 1)) = SumQuantity(CartOf(db, u, 1)) + 2
  /\ \A c \in db'.cart : c \in db.cart \/ c.user_id = u

\* POST /cart without a product_id got past the guard, as any user
Validated(u) == resp'[1].status = 400 /\ db' = db

\* C7: the guard lets the handler run exactly when the header is a Bearer
\* token signed with the server's key and not expired, and the handler then
\* acts as the user of the token; no or another scheme is refused with
\* "Authorization header missing", a token of another key with "Invalid
\* token", a token of the server's key past its exp with "Token expired", each
\* with 401 and the store untouched.  (In the second exp itself the library
\* release decides between running and "Token expired".)
C7_Guard ==
  [][\A h \in Headers :
       /\ Handle(1, profile(Frame(1), h)) => Guarded(h, ProfileOf)
       /\ Handle(1, add_to_cart(Frame(1), h, 1, 2)) => Guarded(h, AddedBy)
       /\ Handle(1, add_to_cart(Frame(1), h, 0, 2)) => Guarded(h, Validated)]_vars

\* a token that once put a row into the cart is refused as expired
C7_Witness ==
  /\ resp[1].status = 401
  /\ resp[1].error = "Token expired"
  /\ cur[1].op = "add_to_cart"
  /\ \E c \in db.cart : c.user_id = cur[1].auth.token.user_id

\* C8: every cart row has a quantity of at least 1.
C8_QuantityIsPositive ==
  \A c \in db.cart : c.quantity >= 1

\* C9: purchases(u) shows every order item of every order of u, with its
\* price and quantity.
C9_HistoryIsComplete ==
  \A u \in UserIds : \A oi \in ItemsOf(db, u) :
    \E row \in purchases_rows(db, u) :
      /\ row.order_id = oi.order_id
      /\ row.product_id = oi.product_id
      /\ row.quantity = oi.quantity
      /\ row.price = oi.price

\* C10: for every user and product, the quantities in the user's order items
\* and cart rows for the product add up to the quantities of the user's
\* successful add_to_cart requests for it.
C10_QuantityIsConserved ==
  \A k \in DOMAIN added :
    SumQuantity({oi \in ItemsOf(db, k[1]) : oi.product_id = k[2]})
      + SumQuantity(CartOf(db, k[1], k[2])) = added[k]
=============================================================================
